---- MODULE Spec2Model ----
(***************************************************************************)
(* Customer administration console: the pagination window (getPages), the  *)
(* fetch / validate / classify promise chains of the five network          *)
(* operations, the Listing page's query state and delete mutation, the     *)
(* RegisterCustomer form and the ManageCustomer page.                      *)
(***************************************************************************)
EXTENDS Integers, Sequences, FiniteSets, TLC

VARIABLES
    pgCalled,       \* getPages has been called with the arguments below
    pgCurrent,      \* argument currentPage
    pgTotal,        \* argument totalPages
    pgMax,          \* argument maxVisiblePages
    pageNumbers,    \* the array getPages returned
    netOp,          \* the network operation that was called
    netPc,          \* where its promise chain stands
    netResponse,    \* the Response fetch resolved with
    netCaught,      \* the value that reached the chain's .catch handler
    netResult,      \* how the promise returned by the operation settled
    lsPage,         \* Listing: the page state, useState(1)
    qcCache,        \* the query client's cache: query key |-> query state
    dbCustomers,    \* the ids of the customers the backend holds
    lsStaleArrival, \* history: since this page came on screen, the result of
                    \* a fetch of another page has arrived
    rgRoute,        \* RegisterCustomer: the route on screen
    rgMutation,     \* RegisterCustomer: the state of useMutation
    rgAlerts,       \* the texts window.alert showed in the last onSubmit
    rgSubmits,      \* how many times the register form was submitted
    rgSubmitted,    \* history: the payload of the last submission
    rgSent,         \* how many POST /api/customers requests were issued
    mcQuery,        \* ManageCustomer: the query of key ["customer", id]
    mcFetch,        \* the detail request under way, and the backend's answer
    mcRecord,       \* the record the backend holds for the customer
    mcMutation,     \* ManageCustomer: the state of useMutation
    mcUpdate,       \* the update request under way, and the backend's answer
    mcMode,         \* useToggle: "view" or "edit"
    mcAlerts,       \* the texts window.alert showed in the last onSubmit
    mcSubmits,      \* how many times the update form was submitted
    lsDeletes,      \* Listing: the delete mutations under way, oldest first
    lsMutation,     \* Listing: the state of useMutation (its latest mutation)
    lsIssued,       \* how many delete mutations were started
    lsDeleted,      \* history: the ids whose delete settled with success
    lsAnswers       \* query key |-> the backend's answer on its way to the page

pgVars == <<pgCalled, pgCurrent, pgTotal, pgMax, pageNumbers>>

netVars == <<netOp, netPc, netResponse, netCaught, netResult>>

lsVars == <<lsPage, qcCache, dbCustomers, lsStaleArrival>>

rgVars == <<rgRoute, rgMutation, rgAlerts, rgSubmits, rgSubmitted, rgSent>>

mcVars == <<mcQuery, mcFetch, mcRecord, mcMutation, mcUpdate, mcMode, mcAlerts, mcSubmits>>

dlVars == <<lsDeletes, lsMutation, lsIssued, lsDeleted, lsAnswers>>

\* the variables a network operation leaves alone
notNet == <<pgVars, lsVars, rgVars, mcVars, dlVars>>

\* the variables a call of getPages leaves alone
notPages == <<netVars, lsVars, rgVars, mcVars, dlVars>>

\* the variables the pagination and the listing query leave alone
notListing == <<pgVars, netVars, rgVars, mcVars, dlVars>>

\* the variables the RegisterCustomer page leaves alone, the backend's
\* customers apart
notRegister == <<pgVars, netVars, lsPage, qcCache, lsStaleArrival, mcVars, dlVars>>

\* the variables the ManageCustomer page leaves alone
notManage == <<pgVars, netVars, lsVars, rgVars, dlVars>>

\* the variables the Listing page with its delete mutation leaves alone
notDelete == <<pgVars, netVars, rgVars, mcVars>>

vars == <<pgVars, netVars, lsVars, rgVars, mcVars, dlVars>>

(***************************************************************************)
(* Bounds of the model.                                                    *)
(***************************************************************************)
MaxTotalPages == 10
MaxVisible == 6
PageSlack == 3
\* the most customers the backend holds
MaxCustomers == 26
\* the highest page the Next button is followed to
MaxPage == 6
\* the most pages whose query is held in the cache
MaxQueries == 3
\* the most listing fetches outstanding at once
MaxInFlight == 2
\* the most submissions of the register form
MaxSubmits == 3
\* the most submissions of the update form
MaxUpdates == 2
\* the most delete mutations started
MaxDeletes == 2

(***************************************************************************)
(* Math.min, Math.max and Array.from({length}, (_, index) => start+index). *)
(***************************************************************************)
Min(a, b) == IF a <= b THEN a ELSE b

Max(a, b) == IF a >= b THEN a ELSE b

\* Array.from({ length: n }, ...): a negative length gives the empty array.
ArrayFrom(length, startPage) ==
    IF length <= 0 THEN <<>> ELSE [index \in 1..length |-> startPage + (index - 1)]

(***************************************************************************)
(* getPages, and the variants of it that the claims are tested against.    *)
(***************************************************************************)
\* variant: the lower clamp Math.max(..., 1) is missing
getPagesNoLowClamp(currentPage, totalPages, maxVisiblePages) ==
    LET totalPageNumbers == Min(maxVisiblePages, totalPages)
        halfWay == totalPageNumbers \div 2
        startPage == Min(currentPage - halfWay, totalPages - totalPageNumbers + 1)
        endPage == Min(startPage + totalPageNumbers - 1, totalPages)
    IN  ArrayFrom(endPage - startPage + 1, startPage)

\* variant: the start is not pulled back from the last pages
getPagesNoHighClamp(currentPage, totalPages, maxVisiblePages) ==
    LET totalPageNumbers == Min(maxVisiblePages, totalPages)
        halfWay == totalPageNumbers \div 2
        startPage == Max(currentPage - halfWay, 1)
        endPage == Min(startPage + totalPageNumbers - 1, totalPages)
    IN  ArrayFrom(endPage - startPage + 1, startPage)

\* variant: Math.ceil instead of Math.floor for halfWay
getPagesCeilHalf(currentPage, totalPages, maxVisiblePages) ==
    LET totalPageNumbers == Min(maxVisiblePages, totalPages)
        halfWay == (totalPageNumbers + 1) \div 2
        startPage == Max(Min(currentPage - halfWay,
                             totalPages - totalPageNumbers + 1), 1)
        endPage == Min(startPage + totalPageNumbers - 1, totalPages)
    IN  ArrayFrom(endPage - startPage + 1, startPage)

\* variant: the window ends just before the current page
getPagesFullBack(currentPage, totalPages, maxVisiblePages) ==
    LET totalPageNumbers == Min(maxVisiblePages, totalPages)
        startPage == Max(Min(currentPage - totalPageNumbers,
                             totalPages - totalPageNumbers + 1), 1)
        endPage == Min(startPage + totalPageNumbers - 1, totalPages)
    IN  ArrayFrom(endPage - startPage + 1, startPage)

getPages(currentPage, totalPages, maxVisiblePages) ==
    LET totalPageNumbers == Min(maxVisiblePages, totalPages)
        halfWay == totalPageNumbers \div 2
        startPage == Max(Min(currentPage - halfWay,
                             totalPages - totalPageNumbers + 1), 1)
        endPage == Min(startPage + totalPageNumbers - 1, totalPages)
    IN  ArrayFrom(endPage - startPage + 1, startPage)

(***************************************************************************)
(* JavaScript and JSON values.  Every value is a record tagged by t.       *)
(***************************************************************************)
JUndef == [t |-> "undefined"]

JNull == [t |-> "null"]

JNum(n) == [t |-> "number", n |-> n]

JStr(s) == [t |-> "string", s |-> s]

JDate(s) == [t |-> "Date", s |-> s]

JArr(e) == [t |-> "array", e |-> e]

\* f is a TLA+ record: property name |-> value
JObj(f) == [t |-> "object", f |-> f]

NoValue == [t |-> "none"]

\* v.k of an object: a missing property reads as undefined
Field(v, k) == IF k \in DOMAIN v.f THEN v.f[k] ELSE JUndef

\* an Error of the platform (TypeError, SyntaxError, ...)
JsError(name, message) == [t |-> "Error", name |-> name, message |-> JStr(message)]

\* new NetError(type, message, inner): super(message), then the three
\* parameter properties are assigned as given.
NetError(type, message, inner) ==
    [t |-> "NetError", type |-> type, message |-> message, inner |-> inner]

ErrorKinds == {"server-error", "network-error", "unknown-error", "validation-error"}

\* the order in which the properties of the API's objects are written
KeyOrder ==
    <<"data", "records", "total_pages", "id", "name", "dob", "email", "contact",
      "created_at", "updated_at", "message">>

KeysOf(f) == SelectSeq(KeyOrder, LAMBDA k : k \in DOMAIN f)

RECURSIVE JoinWith(_, _)
\* Array.prototype.join(sep) on an array of strings
JoinWith(strs, sep) ==
    IF Len(strs) = 0 THEN ""
    ELSE IF Len(strs) = 1 THEN strs[1]
    ELSE strs[1] \o sep \o JoinWith(Tail(strs), sep)

RECURSIVE JSONStringify(_)
\* JSON.stringify(v) of a JSON value
JSONStringify(v) ==
    CASE v.t = "number" -> ToString(v.n)
      [] v.t = "string" -> "\"" \o v.s \o "\""
      [] v.t = "null" -> "null"
      [] v.t = "array" ->
            "[" \o JoinWith([i \in 1..Len(v.e) |-> JSONStringify(v.e[i])], ",") \o "]"
      [] v.t = "object" ->
            LET ks == KeysOf(v.f)
            IN  "{" \o JoinWith([i \in 1..Len(ks) |->
                        "\"" \o ks[i] \o "\":" \o JSONStringify(v.f[ks[i]])], ",") \o "}"

(***************************************************************************)
(* The zod schemas of the source and zod's parse of a JSON value.          *)
(***************************************************************************)
ZNumber == [t |-> "number", transform |-> "none"]

ZString == [t |-> "string", transform |-> "none"]

\* z.string().transform((val) => new Date(val))
ZStringToDate == [t |-> "string", transform |-> "Date"]

\* z.string().email() and z.string().date(): a string schema with one check
ZStringEmail == [t |-> "string", transform |-> "none", check |-> "email"]

ZStringDate == [t |-> "string", transform |-> "none", check |-> "date"]

ZArray(element) == [t |-> "array", element |-> element]

\* shape: the sequence of [key, schema] of z.object({...})
ZObject(shape) == [t |-> "object", shape |-> shape]

CustomerSchema ==
    ZObject(<< [key |-> "id", schema |-> ZNumber],
               [key |-> "name", schema |-> ZString],
               [key |-> "dob", schema |-> ZString],
               [key |-> "email", schema |-> ZString],
               [key |-> "contact", schema |-> ZString],
               [key |-> "created_at", schema |-> ZStringToDate],
               [key |-> "updated_at", schema |-> ZStringToDate] >>)

ApiResponseSchema(schema) == ZObject(<< [key |-> "data", schema |-> schema] >>)

CustomerListingSchema ==
    ApiResponseSchema(ZObject(<< [key |-> "records", schema |-> ZArray(CustomerSchema)],
                                 [key |-> "total_pages", schema |-> ZNumber] >>))

GetCustomerSchema == ApiResponseSchema(CustomerSchema)

\* one element of an issue's path: a property name or an array index
PathKey(k) == [name |-> k, index |-> FALSE]

PathIndex(i) == [name |-> ToString(i), index |-> TRUE]

\* zod's invalid_type issue and its default message
InvalidType(expected, received, path) ==
    [code |-> "invalid_type", expected |-> expected, received |-> received,
     path |-> path,
     message |-> IF received = "undefined" THEN "Required"
                 ELSE "Expected " \o expected \o ", received " \o received]

\* zod's invalid_string issue and its default message
InvalidString(validation, path) ==
    [code |-> "invalid_string", validation |-> validation, path |-> path,
     message |-> "Invalid " \o validation]

\* the sample strings zod's emailRegex matches: it wants a dot and a top-level
\* domain of two letters or more after the @
EmailRegexMatches == {"jane.smith@mail.net", "new@mail.net"}

\* the sample strings zod's dateRegex matches: YYYY-MM-DD of a calendar day
DateRegexMatches == {"2024-01-10", "1990-02-28"}

\* the checks of a string schema, run when the value is a string
StringCheckPasses(check, str) ==
    CASE check = "email" -> str \in EmailRegexMatches
      [] check = "date" -> str \in DateRegexMatches
      [] OTHER -> TRUE

RECURSIVE Flatten(_)
Flatten(seqs) == IF Len(seqs) = 0 THEN <<>> ELSE seqs[1] \o Flatten(Tail(seqs))

RECURSIVE ZodIssues(_, _, _)
\* the issues zod reports for value v against schema, in schema order
ZodIssues(schema, v, path) ==
    IF v.t # schema.t THEN << InvalidType(schema.t, v.t, path) >>
    ELSE CASE schema.t = "object" ->
                Flatten([i \in 1..Len(schema.shape) |->
                    ZodIssues(schema.shape[i].schema,
                              Field(v, schema.shape[i].key),
                              Append(path, PathKey(schema.shape[i].key)))])
           [] schema.t = "array" ->
                Flatten([i \in 1..Len(v.e) |->
                    ZodIssues(schema.element, v.e[i], Append(path, PathIndex(i - 1)))])
           [] schema.t = "string" /\ "check" \in DOMAIN schema ->
                IF StringCheckPasses(schema.check, v.s) THEN <<>>
                ELSE << InvalidString(schema.check, path) >>
           [] OTHER -> <<>>

RECURSIVE ZodOutput(_, _)
\* the parsed value: unknown keys stripped, transforms applied
ZodOutput(schema, v) ==
    CASE schema.t = "object" ->
            JObj([k \in {schema.shape[i].key : i \in 1..Len(schema.shape)} |->
                    LET i == CHOOSE j \in 1..Len(schema.shape) : schema.shape[j].key = k
                    IN  ZodOutput(schema.shape[i].schema, v.f[k])])
      [] schema.t = "array" ->
            JArr([i \in 1..Len(v.e) |-> ZodOutput(schema.element, v.e[i])])
      [] schema.t = "string" ->
            IF schema.transform = "Date" THEN JDate(v.s) ELSE v
      [] OTHER -> v

ZodError(issues) == [t |-> "ZodError", issues |-> issues]

RenderPath(path) ==
    IF Len(path) = 0 THEN "[]"
    ELSE "[\n      "
         \o JoinWith([i \in 1..Len(path) |->
                IF path[i].index THEN path[i].name ELSE "\"" \o path[i].name \o "\""],
                ",\n      ")
         \o "\n    ]"

RenderIssue(issue) ==
    "  {\n    \"code\": \"" \o issue.code
        \o "\",\n    \"expected\": \"" \o issue.expected
        \o "\",\n    \"received\": \"" \o issue.received
        \o "\",\n    \"path\": " \o RenderPath(issue.path)
        \o ",\n    \"message\": \"" \o issue.message \o "\"\n  }"

\* ZodError's message getter: JSON.stringify(this.issues, replacer, 2)
ZodErrorMessage(issues) ==
    IF Len(issues) = 0 THEN "[]"
    ELSE "[\n" \o JoinWith([i \in 1..Len(issues) |-> RenderIssue(issues[i])], ",\n") \o "\n]"

Fulfilled(value) == [settled |-> "fulfilled", value |-> value]

Rejected(value) == [settled |-> "rejected", value |-> value]

\* schema.parseAsync(data)
ParseAsync(schema, data) ==
    LET issues == ZodIssues(schema, data, <<>>)
    IN  IF issues = <<>> THEN Fulfilled(ZodOutput(schema, data))
        ELSE Rejected(ZodError(issues))

(***************************************************************************)
(* The Response of fetch and its body.                                     *)
(***************************************************************************)
\* a body that is not JSON
TextBody(text) == [text |-> text, valid |-> FALSE, value |-> NoValue]

\* a body that is the JSON text of value
JsonBody(value) == [text |-> JSONStringify(value), valid |-> TRUE, value |-> value]

Response(status, body, readable) ==
    [status |-> status, body |-> body, readable |-> readable]

NoResponse == Response(0, TextBody(""), FALSE)

\* response.ok
ResponseOk(response) == response.status \in 200..299

\* response.text(): rejects when the body cannot be read
ResponseText(response) ==
    IF response.readable THEN Fulfilled(JStr(response.body.text))
    ELSE Rejected(JsError("TypeError", "Failed to fetch"))

\* response.json(): rejects when the body cannot be read or is not JSON
ResponseJson(response) ==
    IF ~response.readable THEN Rejected(JsError("TypeError", "Failed to fetch"))
    ELSE IF ~response.body.valid
        THEN Rejected(JsError("SyntaxError", "Unexpected token in JSON"))
    ELSE Fulfilled(response.body.value)

\* if (!response.ok) return response.text().then((message) => { throw ... })
ThrowServerError(response) ==
    LET message == ResponseText(response)
    IN  IF message.settled = "fulfilled"
            THEN Rejected(NetError("server-error", message.value, JUndef))
            ELSE message

\* response.json().then((data) => schema.parseAsync(data))
JsonThenParse(schema, response) ==
    LET data == ResponseJson(response)
    IN  IF data.settled = "fulfilled" THEN ParseAsync(schema, data.value) ELSE data

(***************************************************************************)
(* The .then handler of each network operation.                            *)
(***************************************************************************)
\* variant: response.ok is not looked at
fetchCustomerListingThenNoOkCheck(response) ==
    JsonThenParse(CustomerListingSchema, response)

fetchCustomerListingThen(response) ==
    IF ~ResponseOk(response) THEN ThrowServerError(response)
    ELSE JsonThenParse(CustomerListingSchema, response)

deleteCustomerThen(response) ==
    IF ~ResponseOk(response) THEN ThrowServerError(response)
    ELSE Fulfilled(JUndef)

fetchCustomerThen(response) ==
    IF ~ResponseOk(response) THEN ThrowServerError(response)
    ELSE JsonThenParse(GetCustomerSchema, response)

updateCustomerThen(response) ==
    IF ~ResponseOk(response) THEN ThrowServerError(response)
    ELSE JsonThenParse(GetCustomerSchema, response)

registerCustomerThen(response) ==
    IF ~ResponseOk(response) THEN ThrowServerError(response)
    ELSE ResponseJson(response)

Operations == {"list", "get", "update", "create", "delete"}

ThenHandler(op, response) ==
    CASE op = "list" -> fetchCustomerListingThen(response)
      [] op = "get" -> fetchCustomerThen(response)
      [] op = "update" -> updateCustomerThen(response)
      [] op = "create" -> registerCustomerThen(response)
      [] op = "delete" -> deleteCustomerThen(response)

(***************************************************************************)
(* The .catch handler, the same text in the five operations.               *)
(***************************************************************************)
InstanceOfNetError(error) == error.t = "NetError"

InstanceOfZodError(error) == error.t = "ZodError"

\* NetError and ZodError extend Error
InstanceOfError(error) == error.t \in {"Error", "NetError", "ZodError"}

\* error.message, for an error that is neither null nor undefined
PropertyMessage(error) ==
    CASE error.t \in {"Error", "NetError"} -> error.message
      [] error.t = "ZodError" -> JStr(ZodErrorMessage(error.issues))
      [] error.t = "object" -> Field(error, "message")
      [] OTHER -> JUndef

\* variant: a NetError is not passed through but classified again
CatchHandlerRewraps(error) ==
    IF InstanceOfZodError(error)
        THEN NetError("validation-error", PropertyMessage(error), error)
    ELSE IF InstanceOfError(error)
        THEN NetError("network-error", PropertyMessage(error), error)
    ELSE IF error.t \in {"null", "undefined"}
        THEN JsError("TypeError", "Cannot read properties of " \o error.t)
    ELSE NetError("unknown-error", PropertyMessage(error), error)

\* variant: the cause is dropped from a network-error
CatchHandlerDropsCause(error) ==
    IF InstanceOfNetError(error) THEN error
    ELSE IF InstanceOfZodError(error)
        THEN NetError("validation-error", PropertyMessage(error), error)
    ELSE IF InstanceOfError(error)
        THEN NetError("network-error", PropertyMessage(error), JUndef)
    ELSE IF error.t \in {"null", "undefined"}
        THEN JsError("TypeError", "Cannot read properties of " \o error.t)
    ELSE NetError("unknown-error", PropertyMessage(error), error)

\* the value the handler throws
CatchHandler(error) ==
    IF InstanceOfNetError(error) THEN error
    ELSE IF InstanceOfZodError(error)
        THEN NetError("validation-error", PropertyMessage(error), error)
    ELSE IF InstanceOfError(error)
        THEN NetError("network-error", PropertyMessage(error), error)
    \* error.message of null or undefined throws a TypeError
    ELSE IF error.t \in {"null", "undefined"}
        THEN JsError("TypeError", "Cannot read properties of " \o error.t)
    ELSE NetError("unknown-error", PropertyMessage(error), error)

\* the promise an operation returns, from the outcome of its fetch call
RunChain(op, outcome) ==
    IF outcome.settled = "fulfilled"
        THEN LET r == ThenHandler(op, outcome.value)
             IN  IF r.settled = "fulfilled" THEN r ELSE Rejected(CatchHandler(r.value))
        ELSE Rejected(CatchHandler(outcome.value))

(***************************************************************************)
(* Inputs of the network operations: bodies, statuses, thrown values.      *)
(***************************************************************************)
Customer(id) ==
    JObj([id |-> JNum(id), name |-> JStr("jane"), dob |-> JStr("10-01-2024"),
          email |-> JStr("jane.smith@mail.net"), contact |-> JStr("+60198765432"),
          created_at |-> JStr("2024-09-13T16:12:15Z"),
          updated_at |-> JStr("2024-09-13T16:19:21Z")])

ListingPayload(ids, totalPages) ==
    JObj([data |-> JObj([records |-> JArr([i \in 1..Len(ids) |-> Customer(ids[i])]),
                         total_pages |-> JNum(totalPages)])])

CustomerPayload(id) == JObj([data |-> Customer(id)])

SampleBodies ==
    { TextBody("boom"),
      TextBody(""),
      JsonBody(JStr("boom")),
      JsonBody(JObj([message |-> JStr("not found")])),
      JsonBody(JObj([data |-> JObj([records |-> JArr(<<>>),
                                    total_pages |-> JStr("3")])])),
      JsonBody(JObj([data |-> JObj([id |-> JNum(1), name |-> JNull,
                                    dob |-> JStr("10-01-2024"),
                                    contact |-> JStr("+60198765432"),
                                    created_at |-> JStr("2024-09-13T16:12:15Z"),
                                    updated_at |-> JStr("2024-09-13T16:19:21Z")])])),
      JsonBody(ListingPayload(<<1, 2>>, 3)),
      JsonBody(CustomerPayload(1)) }

SampleStatuses == {200, 201, 204, 400, 404, 500}

\* values a rejected fetch, or a handler of the chain, can hand to .catch
SampleThrown ==
    { JsError("TypeError", "Failed to fetch"),
      ZodError(<< InvalidType("object", "undefined", << PathKey("data") >>) >>),
      JStr("oops"), JNum(42), JNull, JUndef,
      JObj([message |-> JStr("custom")]),
      JObj([id |-> JNum(1)]) }
    \cup { NetError(k, JStr("earlier"), JUndef) : k \in ErrorKinds }

(***************************************************************************)
(* One network operation, step by step along its promise chain.            *)
(***************************************************************************)
InitNet ==
    /\ netOp = "none"
    /\ netPc = "idle"
    /\ netResponse = NoResponse
    /\ netCaught = NoValue
    /\ netResult = [settled |-> "pending", value |-> NoValue]

\* the operation is called: fetch(url, {...}) is issued
CallOperation ==
    /\ netPc = "idle"
    /\ \E op \in Operations : netOp' = op
    /\ netPc' = "fetch"
    /\ UNCHANGED <<netResponse, netCaught, netResult>>
    /\ UNCHANGED notNet

\* fetch resolves with a Response of any status
FetchResolves ==
    /\ netPc = "fetch"
    /\ \E status \in SampleStatuses, body \in SampleBodies, readable \in BOOLEAN :
            netResponse' = Response(status, body, readable)
    /\ netPc' = "then"
    /\ UNCHANGED <<netOp, netCaught, netResult>>
    /\ UNCHANGED notNet

\* fetch rejects before any response
FetchRejects ==
    /\ netPc = "fetch"
    /\ \E error \in SampleThrown : netCaught' = error
    /\ netPc' = "catch"
    /\ UNCHANGED <<netOp, netResponse, netResult>>
    /\ UNCHANGED notNet

\* the .then handler runs on the response
RunThen ==
    /\ netPc = "then"
    /\ LET r == ThenHandler(netOp, netResponse)
       IN  IF r.settled = "fulfilled"
               THEN /\ netResult' = r
                    /\ netPc' = "done"
                    /\ UNCHANGED netCaught
               ELSE /\ netCaught' = r.value
                    /\ netPc' = "catch"
                    /\ UNCHANGED netResult
    /\ UNCHANGED <<netOp, netResponse>>
    /\ UNCHANGED notNet

\* the .catch handler runs on the rejection and throws
RunCatch ==
    /\ netPc = "catch"
    /\ netResult' = Rejected(CatchHandler(netCaught))
    /\ netPc' = "done"
    /\ UNCHANGED <<netOp, netResponse, netCaught>>
    /\ UNCHANGED notNet

NextNet ==
    \/ CallOperation
    \/ FetchResolves
    \/ FetchRejects
    \/ RunThen
    \/ RunCatch

(***************************************************************************)
(* The Listing page: page state, the listing query and the pagination      *)
(* buttons.  useQuery runs with its defaults: data is stale at once, one   *)
(* fetch per query at a time, a result is stored under the key it was      *)
(* fetched for.                                                            *)
(***************************************************************************)
\* useState(5); setLimit is never called
limit == 5

\* Pagination's maxVisiblePages
maxVisiblePages == 5

\* variant: the page is left out of the query key
QueryKeyWithoutPage(page, pageLimit) == <<"customer-listing", 1, pageLimit>>

\* queryKey: ["customer-listing", page, limit]
QueryKey(page, pageLimit) == <<"customer-listing", page, pageLimit>>

QueryKeys == {QueryKey(p, limit) : p \in 1..MaxPage}

\* a query that was never observed.  dataFrom is history: the request whose
\* response is in data and the customers the backend held when it answered.
AbsentQuery ==
    [status |-> "absent", data |-> NoValue, error |-> NoValue,
     fetchStatus |-> "idle", isInvalidated |-> FALSE,
     request |-> NoValue, dataFrom |-> NoValue]

\* queryFn: ({ queryKey: [_, p, l] }) => fetchCustomerListing(p, l); the
\* request carries the page and limit of the key as its query parameters
StartFetch(query, key) ==
    [query EXCEPT !.fetchStatus = "fetching",
                  !.request = [t |-> "request", page |-> key[2], limit |-> key[3]],
                  !.status = IF query.data = NoValue THEN "pending" ELSE @,
                  !.error = IF query.data = NoValue THEN NoValue ELSE @]

\* the observer turns to the query of key: it is fetched unless a fetch of it
\* is already under way
Observe(cache, key) ==
    IF cache[key].fetchStatus = "fetching" THEN cache
    ELSE [cache EXCEPT ![key] = StartFetch(@, key)]

InFlight == {k \in QueryKeys : qcCache[k].fetchStatus = "fetching"}

Cached == {k \in QueryKeys : qcCache[k].status # "absent"}

\* the bounds of the model leave room for the observer to turn to key
CanObserve(key) ==
    /\ \/ qcCache[key].fetchStatus = "fetching"
       \/ Cardinality(InFlight) < MaxInFlight
    /\ \/ key \in Cached
       \/ Cardinality(Cached) < MaxQueries

\* the ids the backend holds, ascending
SortedIds(ids) == SelectSeq([i \in 1..MaxCustomers |-> i], LAMBDA i : i \in ids)

\* GET /api/customers?page=p&limit=l: the ids on page p
PageIds(ids, p, l) ==
    LET all == SortedIds(ids)
    IN  SubSeq(all, (p - 1) * l + 1, Min(p * l, Len(all)))

\* the number of pages of l customers
PageCount(ids, l) == (Cardinality(ids) + l - 1) \div l

\* the outcomes of the fetch call of a listing request: the page from the
\* backend, a failure of the backend, or no response at all
ListingOutcomes(request) ==
    { Fulfilled(Response(200,
          JsonBody(ListingPayload(PageIds(dbCustomers, request.page, request.limit),
                                  PageCount(dbCustomers, request.limit))), TRUE)),
      Fulfilled(Response(500, TextBody("boom"), TRUE)),
      Rejected(JsError("TypeError", "Failed to fetch")) }

\* the query of the key on screen
CurrentQuery == qcCache[QueryKey(lsPage, limit)]

\* Number(queryData.data.data.total_pages)
TotalPagesShown == Field(Field(CurrentQuery.data, "data"), "total_pages").n

\* the Pagination component is rendered only with the records
PaginationShown == CurrentQuery.status = "success"

PageNumbersShown == getPages(lsPage, TotalPagesShown, maxVisiblePages)

InitListing ==
    /\ lsPage = 1
    /\ \E n \in {0, MaxCustomers \div 4, MaxCustomers} : dbCustomers = 1..n
    /\ qcCache = Observe([k \in QueryKeys |-> AbsentQuery], QueryKey(1, limit))
    /\ lsStaleArrival = FALSE

\* onPageChange = setPage: a new page makes the observer turn to its query
SetPage(page) ==
    /\ page \in 1..MaxPage
    /\ lsPage' = page
    /\ IF page = lsPage THEN UNCHANGED <<qcCache, lsStaleArrival>>
       ELSE /\ CanObserve(QueryKey(page, limit))
            /\ qcCache' = Observe(qcCache, QueryKey(page, limit))
            /\ lsStaleArrival' = FALSE
    /\ UNCHANGED dbCustomers
    /\ UNCHANGED notListing

\* the Previous button, disabled on page 1
ClickPrevious ==
    /\ PaginationShown
    /\ lsPage # 1
    /\ SetPage(lsPage - 1)

\* the Next button, disabled when currentPage === totalPages
ClickNext ==
    /\ PaginationShown
    /\ lsPage # TotalPagesShown
    /\ SetPage(lsPage + 1)

\* one of the visible page numbers
ClickPageNumber ==
    /\ PaginationShown
    /\ \E i \in 1..Len(PageNumbersShown) : SetPage(PageNumbersShown[i])

\* the first page shortcut, shown when pageNumbers[0] > 1
ClickFirst ==
    /\ PaginationShown
    /\ Len(PageNumbersShown) > 0
    /\ PageNumbersShown[1] > 1
    /\ SetPage(1)

\* the last page shortcut, shown when the last page number < totalPages
ClickLast ==
    /\ PaginationShown
    /\ Len(PageNumbersShown) > 0
    /\ PageNumbersShown[Len(PageNumbersShown)] < TotalPagesShown
    /\ SetPage(TotalPagesShown)

\* the window regains focus: the query on screen is fetched again
WindowFocus ==
    /\ CurrentQuery.fetchStatus = "idle"
    /\ CanObserve(QueryKey(lsPage, limit))
    /\ qcCache' = Observe(qcCache, QueryKey(lsPage, limit))
    /\ UNCHANGED <<lsPage, dbCustomers, lsStaleArrival>>
    /\ UNCHANGED notListing

\* the promise of a listing fetch settles: its result goes into the query it
\* was fetched for, whatever page is on screen by now
FetchSettles ==
    \E key \in InFlight :
        \E outcome \in ListingOutcomes(qcCache[key].request) :
            LET result == RunChain("list", outcome)
                query == qcCache[key]
            IN  /\ qcCache' = [qcCache EXCEPT ![key] =
                        IF result.settled = "fulfilled"
                            THEN [query EXCEPT !.status = "success",
                                               !.data = result.value,
                                               !.error = NoValue,
                                               !.fetchStatus = "idle",
                                               !.isInvalidated = FALSE,
                                               !.dataFrom = [t |-> "served",
                                                             request |-> query.request,
                                                             ids |-> dbCustomers],
                                               !.request = NoValue]
                            ELSE [query EXCEPT !.status = "error",
                                               !.error = result.value,
                                               !.fetchStatus = "idle",
                                               !.request = NoValue]]
                /\ lsStaleArrival' = \/ lsStaleArrival
                                      \/ /\ result.settled = "fulfilled"
                                         /\ query.request.page # lsPage
                /\ UNCHANGED <<lsPage, dbCustomers>>
                /\ UNCHANGED notListing

NextListing ==
    \/ ClickPrevious
    \/ ClickNext
    \/ ClickPageNumber
    \/ ClickFirst
    \/ ClickLast
    \/ WindowFocus
    \/ FetchSettles

(***************************************************************************)
(* The pagination window as a function of its arguments.                   *)
(***************************************************************************)
InitPages ==
    /\ pgCalled = FALSE
    /\ pgCurrent = 1
    /\ pgTotal = 0
    /\ pgMax = 1
    /\ pageNumbers = <<>>

CallGetPages ==
    /\ ~pgCalled
    /\ \E current \in (0 - PageSlack)..(MaxTotalPages + PageSlack),
          total \in 0..MaxTotalPages,
          visible \in 1..MaxVisible :
           /\ pgCalled' = TRUE
           /\ pgCurrent' = current
           /\ pgTotal' = total
           /\ pgMax' = visible
           /\ pageNumbers' = getPages(current, total, visible)
           /\ UNCHANGED notPages

NextPages == CallGetPages

(***************************************************************************)
(* The RegisterCustomer page: the form's onSubmit handler and the create   *)
(* mutation.                                                               *)
(***************************************************************************)
RegisterCustomerSchema ==
    ZObject(<< [key |-> "name", schema |-> ZString],
               [key |-> "email", schema |-> ZStringEmail],
               [key |-> "contact", schema |-> ZString],
               [key |-> "dob", schema |-> ZStringDate] >>)

\* schema.safeParse(data)
SafeParse(schema, data) ==
    LET issues == ZodIssues(schema, data, <<>>)
    IN  IF issues = <<>> THEN [success |-> TRUE, data |-> ZodOutput(schema, data)]
        ELSE [success |-> FALSE, error |-> ZodError(issues)]

\* result.error.errors.map((e) => e.message).join(", ")
JoinedMessages(error) ==
    JoinWith([i \in 1..Len(error.issues) |-> error.issues[i].message], ", ")

\* the text of the alert of a submission that failed validation
AlertText(error) ==
    JoinedMessages(error) \o "\nPlease correct the errors and try again."

\* the payload built from the FormData entries: every field as a string
FormPayload(name, email, contact, dob) ==
    JObj([name |-> JStr(name), email |-> JStr(email),
          contact |-> JStr(contact), dob |-> JStr(dob)])

\* payloads the browser's own checks let through: name is required, email is
\* required and of type email (no dot needed after the @), contact is empty
\* or matches the pattern, dob is empty or a date
RegisterForms ==
    { FormPayload("jane", email, contact, dob) :
        email \in {"new@mail.net", "jane@mail"},
        contact \in {"", "+60198765432"},
        dob \in {"", "1990-02-28"} }

\* useMutation before the first mutate
IdleMutation ==
    [status |-> "idle", variables |-> NoValue, data |-> NoValue, error |-> NoValue]

\* mutate(variables): the mutation function is called
PendingMutation(variables) ==
    [status |-> "pending", variables |-> variables, data |-> NoValue, error |-> NoValue]

\* the mutation function's promise settled
SettledMutation(mutation, result) ==
    IF result.settled = "fulfilled"
        THEN [mutation EXCEPT !.status = "success", !.data = result.value]
        ELSE [mutation EXCEPT !.status = "error", !.error = result.value]

\* variant: the handler alerts and goes on to mutate
SubmitRegisterWithoutReturn(payload) ==
    LET result == SafeParse(RegisterCustomerSchema, payload)
    IN  /\ rgRoute = "register"
        /\ rgMutation.status # "pending"
        /\ rgSubmits < MaxSubmits
        /\ rgSubmits' = rgSubmits + 1
        /\ rgSubmitted' = payload
        /\ rgAlerts' = IF result.success THEN <<>> ELSE << AlertText(result.error) >>
        /\ rgMutation' = PendingMutation(payload)
        /\ rgSent' = rgSent + 1
        /\ UNCHANGED <<rgRoute, dbCustomers>>
        /\ UNCHANGED notRegister

\* the form's onSubmit; the Register button is disabled while the mutation
\* is pending
SubmitRegister(payload) ==
    LET result == SafeParse(RegisterCustomerSchema, payload)
    IN  /\ rgRoute = "register"
        /\ rgMutation.status # "pending"
        /\ rgSubmits < MaxSubmits
        /\ rgSubmits' = rgSubmits + 1
        /\ rgSubmitted' = payload
        /\ IF ~result.success
              THEN /\ rgAlerts' = << AlertText(result.error) >>
                   /\ UNCHANGED <<rgMutation, rgSent>>
              ELSE /\ rgAlerts' = <<>>
                   /\ rgMutation' = PendingMutation(result.data)
                   /\ rgSent' = rgSent + 1
        /\ UNCHANGED <<rgRoute, dbCustomers>>
        /\ UNCHANGED notRegister

\* the id the backend gives the next customer
NextCustomerId(ids) ==
    IF ids = {} THEN 1 ELSE (CHOOSE i \in ids : \A j \in ids : j <= i) + 1

\* the outcomes of the fetch call of a create request: the backend stores the
\* customer and answers with it, the backend fails, or no response at all
CreateOutcomes ==
    { [created |-> TRUE,
       fetch |-> Fulfilled(Response(201,
                     JsonBody(CustomerPayload(NextCustomerId(dbCustomers))), TRUE))],
      [created |-> FALSE, fetch |-> Fulfilled(Response(500, TextBody("boom"), TRUE))],
      [created |-> FALSE, fetch |-> Rejected(JsError("TypeError", "Failed to fetch"))] }

\* the promise of registerCustomer settles; mutate's onSuccess asks whether
\* to go back to the listing
RegisterSettles ==
    /\ rgRoute = "register"
    /\ rgMutation.status = "pending"
    /\ \E outcome \in CreateOutcomes, redirect \in BOOLEAN :
        LET result == RunChain("create", outcome.fetch)
        IN  /\ outcome.created => NextCustomerId(dbCustomers) <= MaxCustomers
            /\ dbCustomers' = IF outcome.created
                                 THEN dbCustomers \cup {NextCustomerId(dbCustomers)}
                                 ELSE dbCustomers
            /\ rgMutation' = SettledMutation(rgMutation, result)
            /\ rgRoute' = IF result.settled = "fulfilled" /\ redirect
                             THEN "customers" ELSE rgRoute
    /\ UNCHANGED <<rgAlerts, rgSubmits, rgSubmitted, rgSent>>
    /\ UNCHANGED notRegister

InitRegister ==
    /\ rgRoute = "register"
    /\ rgMutation = IdleMutation
    /\ rgAlerts = <<>>
    /\ rgSubmits = 0
    /\ rgSubmitted = NoValue
    /\ rgSent = 0

\* the query of key after a successful fetch from a backend that holds ids
ServedQuery(key, ids) ==
    [status |-> "success",
     data |-> ZodOutput(CustomerListingSchema,
                  ListingPayload(PageIds(ids, key[2], key[3]), PageCount(ids, key[3]))),
     error |-> NoValue, fetchStatus |-> "idle", isInvalidated |-> FALSE,
     request |-> NoValue,
     dataFrom |-> [t |-> "served",
                   request |-> [t |-> "request", page |-> key[2], limit |-> key[3]],
                   ids |-> ids]]

\* the register page is opened from the listing, whose first page is cached,
\* or by its address, with nothing cached
InitRegisterPage ==
    /\ lsPage = 1
    /\ lsStaleArrival = FALSE
    /\ \E n \in {0, limit} :
        /\ dbCustomers = 1..n
        /\ \E cached \in BOOLEAN :
            qcCache = [k \in QueryKeys |->
                          IF cached /\ k = QueryKey(1, limit)
                              THEN ServedQuery(k, 1..n) ELSE AbsentQuery]
    /\ InitRegister

NextRegister ==
    \/ \E payload \in RegisterForms : SubmitRegister(payload)
    \/ RegisterSettles

(***************************************************************************)
(* The ManageCustomer page: the detail query, the update form and the      *)
(* update mutation with its optimistic patch.  A request is answered by    *)
(* the backend first, and its response reaches the page later.             *)
(***************************************************************************)
\* CustomerSchema.pick({ name, email, contact, dob })
UpdateCustomerSchema ==
    ZObject(<< [key |-> "name", schema |-> ZString],
               [key |-> "email", schema |-> ZString],
               [key |-> "contact", schema |-> ZString],
               [key |-> "dob", schema |-> ZString] >>)

\* { ...a, ...b } of two objects
Spread(a, b) ==
    JObj([k \in DOMAIN a.f \cup DOMAIN b.f |->
             IF k \in DOMAIN b.f THEN b.f[k] ELSE a.f[k]])

\* onMutate's updater: (old) => old == null ? old
\*                               : { ...old, data: { ...old.data, ...param } }
OptimisticPatch(old, param) ==
    IF old \in {NoValue, JNull, JUndef} THEN old
    ELSE Spread(old, JObj([data |-> Spread(Field(old, "data"), param)]))

\* the query before its first fetch
AbsentDetail ==
    [status |-> "absent", data |-> NoValue, error |-> NoValue,
     fetchStatus |-> "idle", isInvalidated |-> FALSE]

\* qc.setQueryData(key, data): undefined data changes nothing; a fetch under
\* way goes on
SetQueryData(query, data) ==
    IF data = NoValue THEN query
    ELSE [query EXCEPT !.data = data, !.status = "success", !.error = NoValue,
                       !.isInvalidated = FALSE]

\* a request the backend has not answered yet
SentRequest == [t |-> "request", answered |-> FALSE, outcome |-> NoValue]

\* the query starts fetching
StartDetailFetch(query) ==
    [query EXCEPT !.fetchStatus = "fetching",
                  !.status = IF query.data = NoValue THEN "pending" ELSE @,
                  !.error = IF query.data = NoValue THEN NoValue ELSE @]

\* qc.invalidateQueries({ queryKey }) on the observed query: it is marked
\* invalidated and refetched
InvalidatedDetail(query) == StartDetailFetch([query EXCEPT !.isInvalidated = TRUE])

\* the request of the refetch of an invalidation: a fetch under way is
\* cancelled and replaced when the query has data, and kept when it has none
RefetchRequest(query, fetch) ==
    IF query.fetchStatus = "fetching" /\ query.data = NoValue THEN fetch
    ELSE SentRequest

\* payloads of the update form: name is required; the other fields are left
\* as they are
UpdateForms ==
    { FormPayload(name, "jane.smith@mail.net", "+60198765432", "2024-01-10") :
        name \in {"jane", "june"} }

\* the outcomes of the fetch call of a detail request when the backend holds
\* record
DetailOutcomes(record) ==
    { Fulfilled(Response(200, JsonBody(JObj([data |-> record])), TRUE)),
      Fulfilled(Response(500, TextBody("boom"), TRUE)),
      Rejected(JsError("TypeError", "Failed to fetch")) }

\* the backend's handling of PUT /api/customers/{id}: the record is changed
\* and returned, the request is refused, or the record is changed and the
\* response is lost
UpdateOutcomes(record, param) ==
    { [record |-> Spread(record, param),
       fetch |-> Fulfilled(Response(200,
                     JsonBody(JObj([data |-> Spread(record, param)])), TRUE))],
      [record |-> record,
       fetch |-> Fulfilled(Response(500, TextBody("boom"), TRUE))],
      [record |-> Spread(record, param),
       fetch |-> Rejected(JsError("TypeError", "Failed to fetch"))] }

InitManage ==
    /\ mcQuery = StartDetailFetch(AbsentDetail)
    /\ mcFetch = SentRequest
    /\ mcRecord = Customer(1)
    /\ mcMutation = IdleMutation
    /\ mcUpdate = NoValue
    /\ mcMode = "view"
    /\ mcAlerts = <<>>
    /\ mcSubmits = 0

\* the form is rendered once the query has succeeded
FormShown == mcQuery.status = "success"

\* the Edit / Cancel button: toggle()
ToggleMode ==
    /\ FormShown
    /\ mcMode' = IF mcMode = "view" THEN "edit" ELSE "view"
    /\ UNCHANGED <<mcQuery, mcFetch, mcRecord, mcMutation, mcUpdate, mcAlerts, mcSubmits>>
    /\ UNCHANGED notManage

\* the form's onSubmit; Save is there in edit mode and is disabled while the
\* mutation is pending.  mutate runs onMutate, then the mutation function.
SubmitUpdate(payload) ==
    LET result == SafeParse(UpdateCustomerSchema, payload)
    IN  /\ FormShown
        /\ mcMode = "edit"
        /\ mcMutation.status # "pending"
        /\ mcSubmits < MaxUpdates
        /\ mcSubmits' = mcSubmits + 1
        /\ IF ~result.success
              THEN /\ mcAlerts' = << AlertText(result.error) >>
                   /\ UNCHANGED <<mcQuery, mcMutation, mcUpdate>>
              ELSE /\ mcAlerts' = <<>>
                   /\ mcMutation' = PendingMutation(result.data)
                   /\ mcQuery' = SetQueryData(mcQuery,
                                     OptimisticPatch(mcQuery.data, result.data))
                   /\ mcUpdate' = [SentRequest EXCEPT !.t = "update"]
        /\ UNCHANGED <<mcFetch, mcRecord, mcMode>>
        /\ UNCHANGED notManage

\* the backend handles the update request
BackendHandlesUpdate ==
    /\ mcUpdate # NoValue
    /\ ~mcUpdate.answered
    /\ \E outcome \in UpdateOutcomes(mcRecord, mcMutation.variables) :
        /\ mcRecord' = outcome.record
        /\ mcUpdate' = [mcUpdate EXCEPT !.answered = TRUE, !.outcome = outcome.fetch]
    /\ UNCHANGED <<mcQuery, mcFetch, mcMutation, mcMode, mcAlerts, mcSubmits>>
    /\ UNCHANGED notManage

\* variant: onSettled does not invalidate on an error
UpdateSettlesWithoutInvalidate ==
    /\ mcUpdate # NoValue
    /\ mcUpdate.answered
    /\ LET result == RunChain("update", mcUpdate.outcome)
       IN  /\ mcMutation' = SettledMutation(mcMutation, result)
           /\ mcQuery' = IF result.settled = "fulfilled"
                            THEN SetQueryData(mcQuery, result.value) ELSE mcQuery
           /\ mcMode' = IF result.settled = "fulfilled" THEN "view" ELSE mcMode
    /\ mcUpdate' = NoValue
    /\ UNCHANGED <<mcFetch, mcRecord, mcAlerts, mcSubmits>>
    /\ UNCHANGED notManage

\* the promise of updateCustomer settles: onSettled(resp, error), then
\* mutate's onSuccess
UpdateSettles ==
    /\ mcUpdate # NoValue
    /\ mcUpdate.answered
    /\ LET result == RunChain("update", mcUpdate.outcome)
       IN  /\ mcMutation' = SettledMutation(mcMutation, result)
           /\ IF result.settled = "fulfilled"
                 THEN /\ mcQuery' = SetQueryData(mcQuery, result.value)
                      /\ mcFetch' = mcFetch
                 ELSE /\ mcQuery' = InvalidatedDetail(mcQuery)
                      /\ mcFetch' = RefetchRequest(mcQuery, mcFetch)
           /\ mcMode' = IF result.settled = "fulfilled" THEN "view" ELSE mcMode
    /\ mcUpdate' = NoValue
    /\ UNCHANGED <<mcRecord, mcAlerts, mcSubmits>>
    /\ UNCHANGED notManage

\* the backend answers the detail request from the record it holds
BackendAnswersDetail ==
    /\ mcFetch # NoValue
    /\ ~mcFetch.answered
    /\ \E outcome \in DetailOutcomes(mcRecord) :
        mcFetch' = [mcFetch EXCEPT !.answered = TRUE, !.outcome = outcome]
    /\ UNCHANGED <<mcQuery, mcRecord, mcMutation, mcUpdate, mcMode, mcAlerts, mcSubmits>>
    /\ UNCHANGED notManage

\* the promise of fetchCustomer settles
DetailSettles ==
    /\ mcFetch # NoValue
    /\ mcFetch.answered
    /\ LET result == RunChain("get", mcFetch.outcome)
       IN  mcQuery' = IF result.settled = "fulfilled"
                         THEN [mcQuery EXCEPT !.status = "success",
                                              !.data = result.value,
                                              !.error = NoValue,
                                              !.fetchStatus = "idle",
                                              !.isInvalidated = FALSE]
                         ELSE [mcQuery EXCEPT !.status = "error",
                                              !.error = result.value,
                                              !.fetchStatus = "idle"]
    /\ mcFetch' = NoValue
    /\ UNCHANGED <<mcRecord, mcMutation, mcUpdate, mcMode, mcAlerts, mcSubmits>>
    /\ UNCHANGED notManage

\* the window regains focus: the idle query is refetched
WindowFocusDetail ==
    /\ mcQuery.fetchStatus = "idle"
    /\ mcQuery' = StartDetailFetch(mcQuery)
    /\ mcFetch' = SentRequest
    /\ UNCHANGED <<mcRecord, mcMutation, mcUpdate, mcMode, mcAlerts, mcSubmits>>
    /\ UNCHANGED notManage

NextManage ==
    \/ ToggleMode
    \/ \E payload \in UpdateForms : SubmitUpdate(payload)
    \/ BackendHandlesUpdate
    \/ UpdateSettles
    \/ BackendAnswersDetail
    \/ DetailSettles
    \/ WindowFocusDetail

(***************************************************************************)
(* The Listing page with its delete mutation.  A request is answered by    *)
(* the backend first, and its response reaches the page later.  useMutation *)
(* reports the latest mutation; the onSettled of its options runs for      *)
(* every mutation.                                                         *)
(***************************************************************************)
\* the ids of the rows of the table: queryData.data.data.records.map(...)
RowIds ==
    LET records == Field(Field(CurrentQuery.data, "data"), "records").e
    IN  {Field(records[i], "id").n : i \in 1..Len(records)}

\* disabled={status === "pending" && variables === customer.id}
DeleteDisabled(id) ==
    lsMutation.status = "pending" /\ lsMutation.variables = JNum(id)

\* handleDelete(id, name) with the confirm dialog accepted: mutate(id)
ClickDelete(id) ==
    /\ PaginationShown
    /\ id \in RowIds
    /\ ~DeleteDisabled(id)
    /\ lsIssued < MaxDeletes
    /\ lsIssued' = lsIssued + 1
    /\ lsDeletes' = Append(lsDeletes, [SentRequest EXCEPT !.t = "delete"]
                                          @@ [id |-> id, mid |-> lsIssued + 1])
    /\ lsMutation' = PendingMutation(JNum(id))
    /\ UNCHANGED <<lsVars, lsDeleted, lsAnswers>>
    /\ UNCHANGED notDelete

\* the backend's handling of DELETE /api/customers/{id}: the customer is
\* removed, or the request is refused; an unknown id is not found
DeleteOutcomes(id) ==
    IF id \in dbCustomers
        THEN { [deleted |-> TRUE,
                fetch |-> Fulfilled(Response(204, TextBody(""), TRUE))],
               [deleted |-> FALSE,
                fetch |-> Fulfilled(Response(500, TextBody("boom"), TRUE))] }
        ELSE { [deleted |-> FALSE,
                fetch |-> Fulfilled(Response(404, TextBody("not found"), TRUE))] }

BackendHandlesDelete ==
    \E i \in 1..Len(lsDeletes) :
        /\ ~lsDeletes[i].answered
        /\ \E outcome \in DeleteOutcomes(lsDeletes[i].id) :
            /\ dbCustomers' = IF outcome.deleted THEN dbCustomers \ {lsDeletes[i].id}
                              ELSE dbCustomers
            /\ lsDeletes' = [lsDeletes EXCEPT ![i].answered = TRUE,
                                              ![i].outcome = outcome.fetch]
        /\ UNCHANGED <<lsPage, qcCache, lsStaleArrival, lsMutation, lsIssued,
                       lsDeleted, lsAnswers>>
        /\ UNCHANGED notDelete

\* s without its i-th element
RemoveAt(s, i) == SubSeq(s, 1, i - 1) \o SubSeq(s, i + 1, Len(s))

\* qc.invalidateQueries({ queryKey: ["customer-listing", 1, limit] }), called
\* while the observer is still on the query of the page on screen: the query
\* of page 1 is marked invalidated, and refetched only if it is the observed
\* one; that refetch replaces a fetch under way when the query has data
InvalidateFirstPage(cache, page) ==
    LET key == QueryKey(1, limit)
    IN  IF cache[key].status = "absent" THEN cache
        ELSE IF page = 1
            THEN [cache EXCEPT ![key] = StartFetch([@ EXCEPT !.isInvalidated = TRUE], key)]
            ELSE [cache EXCEPT ![key].isInvalidated = TRUE]

\* the answers on their way after that invalidation: the one of a replaced
\* fetch is dropped
AnswersAfterInvalidate(cache, answers, page) ==
    LET key == QueryKey(1, limit)
    IN  IF page = 1 /\ cache[key].data # NoValue
            THEN [answers EXCEPT ![key] = NoValue]
            ELSE answers

\* the promise of deleteCustomer settles: onSettled resets the page and
\* invalidates the first page; the page is rendered again with page 1
DeleteSettles ==
    \E i \in 1..Len(lsDeletes) :
        /\ lsDeletes[i].answered
        /\ LET result == RunChain("delete", lsDeletes[i].outcome)
           IN  /\ lsMutation' = IF lsDeletes[i].mid = lsIssued
                                    THEN SettledMutation(lsMutation, result)
                                    ELSE lsMutation
               /\ lsDeleted' = IF result.settled = "fulfilled"
                                   THEN lsDeleted \cup {lsDeletes[i].id}
                                   ELSE lsDeleted
        /\ lsDeletes' = RemoveAt(lsDeletes, i)
        /\ lsPage' = 1
        /\ qcCache' = Observe(InvalidateFirstPage(qcCache, lsPage), QueryKey(1, limit))
        /\ lsAnswers' = AnswersAfterInvalidate(qcCache, lsAnswers, lsPage)
        /\ lsStaleArrival' = IF lsPage = 1 THEN lsStaleArrival ELSE FALSE
        /\ UNCHANGED <<dbCustomers, lsIssued>>
        /\ UNCHANGED notDelete

\* the backend answers a listing request from the customers it holds
BackendAnswersListing ==
    \E key \in InFlight :
        /\ lsAnswers[key] = NoValue
        /\ \E outcome \in ListingOutcomes(qcCache[key].request) :
            lsAnswers' = [lsAnswers EXCEPT ![key] =
                             [t |-> "answer", outcome |-> outcome, ids |-> dbCustomers]]
        /\ UNCHANGED <<lsVars, lsDeletes, lsMutation, lsIssued, lsDeleted>>
        /\ UNCHANGED notDelete

\* the promise of a listing fetch settles with the answer that was on its way
ListingArrives ==
    \E key \in InFlight :
        /\ lsAnswers[key] # NoValue
        /\ LET result == RunChain("list", lsAnswers[key].outcome)
               query == qcCache[key]
           IN  /\ qcCache' = [qcCache EXCEPT ![key] =
                       IF result.settled = "fulfilled"
                           THEN [query EXCEPT !.status = "success",
                                              !.data = result.value,
                                              !.error = NoValue,
                                              !.fetchStatus = "idle",
                                              !.isInvalidated = FALSE,
                                              !.dataFrom = [t |-> "served",
                                                            request |-> query.request,
                                                            ids |-> lsAnswers[key].ids],
                                              !.request = NoValue]
                           ELSE [query EXCEPT !.status = "error",
                                              !.error = result.value,
                                              !.fetchStatus = "idle",
                                              !.request = NoValue]]
               /\ lsStaleArrival' = \/ lsStaleArrival
                                     \/ /\ result.settled = "fulfilled"
                                        /\ query.request.page # lsPage
        /\ lsAnswers' = [lsAnswers EXCEPT ![key] = NoValue]
        /\ UNCHANGED <<lsPage, dbCustomers, lsDeletes, lsMutation, lsIssued, lsDeleted>>
        /\ UNCHANGED notDelete

InitDelete ==
    /\ lsDeletes = <<>>
    /\ lsMutation = IdleMutation
    /\ lsIssued = 0
    /\ lsDeleted = {}
    /\ lsAnswers = [k \in QueryKeys |-> NoValue]

\* the listing is opened on a backend that holds a little more than one page
InitDeletePage ==
    /\ lsPage = 1
    /\ dbCustomers = 1..(limit + 1)
    /\ qcCache = Observe([k \in QueryKeys |-> AbsentQuery], QueryKey(1, limit))
    /\ lsStaleArrival = FALSE
    /\ InitDelete

\* the rows whose Delete button the user clicks: one of the first page, one
\* of the second
DeleteTargets == {1, limit + 1}

\* the user moves between the pages by the page numbers
NextDelete ==
    \/ ClickPageNumber
    \/ WindowFocus
    \/ \E id \in DeleteTargets : ClickDelete(id)
    \/ BackendHandlesDelete
    \/ DeleteSettles
    \/ BackendAnswersListing
    \/ ListingArrives

Init == InitPages /\ InitNet /\ InitListing /\ InitRegister /\ InitManage /\ InitDelete

SpecPages == Init /\ [][NextPages]_vars

SpecNet == Init /\ [][NextNet]_vars

SpecListing == Init /\ [][NextListing]_vars

\* the application opened on the register page
InitAtRegister == InitPages /\ InitNet /\ InitRegisterPage /\ InitManage /\ InitDelete

SpecRegister == InitAtRegister /\ [][NextRegister]_vars

\* the application opened on the listing of a backend with two pages
InitAtListing == InitPages /\ InitNet /\ InitDeletePage /\ InitRegister /\ InitManage

SpecDelete == InitAtListing /\ [][NextDelete]_vars

SpecManage == Init /\ [][NextManage]_vars

(***************************************************************************)
(* Pagination window: claims.                                              *)
(***************************************************************************)
Elements(s) == {s[i] : i \in 1..Len(s)}

\* C1: for every totalPages >= 0, every integer currentPage and every
\* maxVisiblePages >= 1, every element of the returned sequence lies in
\* [1, totalPages], and the sequence is empty iff totalPages = 0.
WindowWithinBounds ==
    pgCalled =>
        /\ \A i \in 1..Len(pageNumbers) : pageNumbers[i] \in 1..pgTotal
        /\ (pageNumbers = <<>>) <=> (pgTotal = 0)

\* the current page is outside [1, totalPages] and a window was still produced
WindowOutOfRangePage ==
    /\ pgCalled
    /\ pgTotal > 0
    /\ pgCurrent < 1
    /\ pageNumbers # <<>>

\* C2: for totalPages > 0 the returned sequence has exactly
\* min(maxVisiblePages, totalPages) elements.
WindowLength ==
    (pgCalled /\ pgTotal > 0) => Len(pageNumbers) = Min(pgMax, pgTotal)

\* the current page is near the last page of a listing longer than the window
WindowNearLastPage ==
    /\ pgCalled
    /\ pgTotal > pgMax
    /\ pgCurrent = pgTotal
    /\ Len(pageNumbers) = pgMax

\* C3: the result is the ascending contiguous sequence from start to end with
\* windowSize = min(maxVisiblePages, totalPages), half = floor(windowSize / 2),
\* start = max(min(currentPage - half, totalPages - windowSize + 1), 1),
\* end = min(start + windowSize - 1, totalPages); and the four worked cases.
WindowIsStartToEnd ==
    pgCalled =>
        LET windowSize == IF pgMax < pgTotal THEN pgMax ELSE pgTotal
            half == CHOOSE h \in 0..windowSize : 2 * h \in {windowSize - 1, windowSize}
            lo == IF pgCurrent - half < pgTotal - windowSize + 1
                      THEN pgCurrent - half ELSE pgTotal - windowSize + 1
            start == IF lo > 1 THEN lo ELSE 1
            end == IF start + windowSize - 1 < pgTotal
                       THEN start + windowSize - 1 ELSE pgTotal
        IN  /\ Len(pageNumbers) = (IF end >= start THEN end - start + 1 ELSE 0)
            /\ \A i \in 1..Len(pageNumbers) : pageNumbers[i] = start + i - 1
            /\ (pgCurrent = 1 /\ pgTotal = 10 /\ pgMax = 5)
                   => pageNumbers = <<1, 2, 3, 4, 5>>
            /\ (pgCurrent = 10 /\ pgTotal = 10 /\ pgMax = 5)
                   => pageNumbers = <<6, 7, 8, 9, 10>>
            /\ (pgCurrent = 5 /\ pgTotal = 10 /\ pgMax = 5)
                   => pageNumbers = <<3, 4, 5, 6, 7>>
            /\ (pgCurrent = 3 /\ pgTotal = 2 /\ pgMax = 5)
                   => pageNumbers = <<1, 2>>

\* the centred case getPages(5, 10, 5) has been computed
WindowCentred ==
    /\ pgCalled
    /\ pgCurrent = 5 /\ pgTotal = 10 /\ pgMax = 5
    /\ pageNumbers = <<3, 4, 5, 6, 7>>

\* C4: whenever totalPages >= maxVisiblePages and 1 <= currentPage <=
\* totalPages, the window contains currentPage.
WindowContainsCurrent ==
    (pgCalled /\ pgTotal >= pgMax /\ pgCurrent \in 1..pgTotal)
        => pgCurrent \in Elements(pageNumbers)

\* the window was shifted by the clamp at the last page and still holds it
WindowClampedHoldsCurrent ==
    /\ pgCalled
    /\ pgTotal > pgMax /\ pgMax > 1
    /\ pgCurrent = pgTotal
    /\ pageNumbers[Len(pageNumbers)] = pgCurrent
    /\ pageNumbers[1] > 1

(***************************************************************************)
(* Error classification: claims.                                           *)
(***************************************************************************)
\* the schema a response body is validated against, for the operations that
\* validate it
ValidatedOps == {"list", "get", "update"}

ResponseSchema(op) == IF op = "list" THEN CustomerListingSchema ELSE GetCustomerSchema

\* the operation got a response
Responded == netResponse # NoResponse

\* C5: for each network operation, a non-success status whose body text was
\* read makes the operation fail with a NetError of type server-error whose
\* message is exactly the body text, whatever the body is; no other kind
\* results.
ServerErrorCarriesBodyText ==
    (netPc = "done" /\ Responded /\ ~ResponseOk(netResponse) /\ netResponse.readable)
        => netResult = Rejected(NetError("server-error",
                                         JStr(netResponse.body.text), JUndef))

\* a 500 response with body "boom" ended as server-error "boom"
ServerErrorBoom ==
    /\ netPc = "done"
    /\ netResponse.status = 500
    /\ netResponse.readable
    /\ netResponse.body.text = "boom"
    /\ netResult.settled = "rejected"
    /\ netResult.value.t = "NetError"
    /\ netResult.value.type = "server-error"
    /\ netResult.value.message = JStr("boom")

\* the messages of the issues, as result.error.errors.map((e) => e.message)
IssueMessages(issues) == [i \in 1..Len(issues) |-> issues[i].message]

\* C6: a success response whose body fails shape validation with field
\* messages m1..mn makes the operation fail with a NetError of type
\* validation-error whose message is m1..mn joined by ", " and whose cause is
\* the validation failure.
ValidationErrorJoinsMessages ==
    (/\ netPc = "done"
     /\ netOp \in ValidatedOps
     /\ Responded /\ ResponseOk(netResponse)
     /\ netResponse.readable /\ netResponse.body.valid
     /\ ZodIssues(ResponseSchema(netOp), netResponse.body.value, <<>>) # <<>>)
        => LET issues == ZodIssues(ResponseSchema(netOp), netResponse.body.value, <<>>)
           IN  netResult = Rejected(NetError("validation-error",
                                             JStr(JoinWith(IssueMessages(issues), ", ")),
                                             ZodError(issues)))

\* C7: a failure that is an Error but neither a NetError nor a ZodError makes
\* the operation fail with a NetError of type network-error whose message is
\* the failure's message and whose cause is the failure.
NetworkErrorWrapsFailure ==
    (netPc = "done" /\ netCaught.t = "Error")
        => netResult = Rejected(NetError("network-error", netCaught.message, netCaught))

\* fetch rejected before any response and the operation ended as network-error
ConnectivityFailureClassified ==
    /\ netPc = "done"
    /\ ~Responded
    /\ netCaught = JsError("TypeError", "Failed to fetch")
    /\ netResult.settled = "rejected"
    /\ netResult.value.t = "NetError"
    /\ netResult.value.type = "network-error"
    /\ netResult.value.inner = netCaught

\* C8: a thrown value that is not an Error (a string, a number, a plain
\* object, null, undefined) makes the operation fail with a NetError of type
\* unknown-error whose message is a string rendering of the value and whose
\* cause is the value; the operation fails with nothing but a NetError.
UnknownErrorWrapsAnyValue ==
    (netPc = "done" /\ netCaught.t \in {"string", "number", "object", "null", "undefined"})
        => /\ netResult.settled = "rejected"
           /\ netResult.value.t = "NetError"
           /\ netResult.value.type = "unknown-error"
           /\ netResult.value.message.t = "string"
           /\ netResult.value.inner = netCaught

\* C9: a failure that reaches the classification step as a NetError, of any
\* of the four kinds, propagates as the very same value: same type, message
\* and cause, not wrapped in a second NetError.
ClassifiedErrorPassesThrough ==
    (netPc = "done" /\ netCaught.t = "NetError")
        => netResult = Rejected(netCaught)

\* the server-error thrown by the .then handler went through .catch unchanged
ServerErrorWentThroughCatch ==
    /\ netPc = "done"
    /\ Responded
    /\ netResponse.status = 404
    /\ netCaught.t = "NetError"
    /\ netCaught.type = "server-error"
    /\ netResult = Rejected(netCaught)

\* C15: a network operation fails with kind network-error only when no
\* response came back: once a response was received, of any status and body,
\* the outcome is a success, a server-error or a validation-error.
NetworkErrorOnlyWithoutResponse ==
    (netPc = "done" /\ Responded)
        => ~ /\ netResult.settled = "rejected"
             /\ netResult.value.t = "NetError"
             /\ netResult.value.type = "network-error"

\* C16: list, get, create and update end either with a value that passed the
\* validation of the expected response shape, or with a NetError; none
\* resolves with a body that does not match its shape.
ValidatedValueOrClassifiedError ==
    (netPc = "done" /\ netOp \in {"list", "get", "create", "update"})
        => \/ /\ netResult.settled = "rejected"
              /\ netResult.value.t = "NetError"
           \/ /\ netResult.settled = "fulfilled"
              /\ netResponse.body.valid
              /\ ZodIssues(ResponseSchema(netOp), netResponse.body.value, <<>>) = <<>>

(***************************************************************************)
(* The Listing page: claims.                                               *)
(***************************************************************************)
\* the ids of the records in the table
RecordIdsShown ==
    LET records == Field(Field(CurrentQuery.data, "data"), "records").e
    IN  [i \in 1..Len(records) |-> Field(records[i], "id").n]

\* C10: whenever the listing shows records, they are the result of a fetch
\* issued for the current (page, limit) key: the response of a request for
\* that page and limit, holding that page of the backend's customers; a
\* result fetched for another page is never what is displayed.
StaleResultNeverShown ==
    CurrentQuery.status = "success"
        => /\ CurrentQuery.dataFrom.request
                  = [t |-> "request", page |-> lsPage, limit |-> limit]
           /\ RecordIdsShown = PageIds(CurrentQuery.dataFrom.ids, lsPage, limit)

\* page 2 is on screen with its records, and the result of the fetch of
\* page 1, started while page 1 was on screen, arrived after the switch
PageOneArrivedUnderPageTwo ==
    /\ lsPage = 2
    /\ CurrentQuery.status = "success"
    /\ RecordIdsShown # <<>>
    /\ qcCache[QueryKey(1, limit)].status = "success"
    /\ Cached = {QueryKey(1, limit), QueryKey(2, limit)}
    /\ lsStaleArrival
    /\ RecordIdsShown # PageIds(dbCustomers, 1, limit)

\* C17: starting from page 1, whatever enabled pagination controls are
\* clicked and whatever totalPages >= 0 the listing fetches return, the
\* current page lies in 1 .. max(1, totalPages) whenever the pagination is on
\* screen.
CurrentPageWithinRange ==
    PaginationShown => lsPage \in 1 .. Max(1, TotalPagesShown)

(***************************************************************************)
(* The forms: claims.                                                      *)
(***************************************************************************)
\* the messages of the issues of a payload, in the order of the schema
ViolationMessages(schema, payload) ==
    LET issues == ZodIssues(schema, payload, <<>>)
    IN  [i \in 1..Len(issues) |-> issues[i].message]

\* C14: a submission of the register form whose payload fails the schema
\* starts no mutation and sends no request: the mutation state, the count of
\* requests sent and the query cache stay as they were, and one alert shows
\* the violation messages joined by ", " (followed by the fixed line that asks
\* to correct them).
InvalidSubmissionSendsNothing ==
    [][ ( /\ rgSubmits' = rgSubmits + 1
          /\ ViolationMessages(RegisterCustomerSchema, rgSubmitted') # <<>> )
        => /\ rgMutation' = rgMutation
           /\ rgSent' = rgSent
           /\ qcCache' = qcCache
           /\ rgAlerts' =
                << JoinWith(ViolationMessages(RegisterCustomerSchema, rgSubmitted'), ", ")
                   \o "\nPlease correct the errors and try again." >> ]_vars

\* a submission with two violations was answered by the alert alone
TwoViolationsAlerted ==
    /\ rgSubmits = 1
    /\ rgAlerts = << "Invalid email, Invalid date\nPlease correct the errors and try again." >>
    /\ rgMutation.status = "idle"
    /\ rgSent = 0

(***************************************************************************)
(* The ManageCustomer page: claims.                                        *)
(***************************************************************************)
\* what a detail fetch answered from record puts into the query
DetailOf(record) == ZodOutput(GetCustomerSchema, JObj([data |-> record]))

\* C11: after an update failed, once the query is idle again with a
\* successful result, the record on screen is the backend's record: the
\* failure invalidated the query, and the optimistic values are gone when the
\* refetch has succeeded.
FailedUpdateShowsBackendRecord ==
    ( /\ mcMutation.status = "error"
      /\ mcQuery.fetchStatus = "idle"
      /\ mcQuery.status = "success" )
        => mcQuery.data = DetailOf(mcRecord)

\* an update to "june" was refused, and the refetch brought "jane" back
OptimisticNameReplaced ==
    /\ mcMutation.status = "error"
    /\ mcMutation.variables.f.name = JStr("june")
    /\ mcQuery.fetchStatus = "idle"
    /\ mcQuery.status = "success"
    /\ mcQuery.isInvalidated = FALSE
    /\ Field(Field(mcQuery.data, "data"), "name") = JStr("jane")
    /\ mcRecord.f.name = JStr("jane")

\* C20: after an update succeeded, when no request for the customer is under
\* way any more, the query holds the record the update returned.
SettledUpdateIsShown ==
    ( /\ mcMutation.status = "success"
      /\ mcFetch = NoValue
      /\ mcUpdate = NoValue )
        => mcQuery.data = mcMutation.data

\* C18: while a delete request for a customer is under way, the Delete
\* button of the customer's row is disabled, and no two delete requests for
\* one customer are under way at once.
DeleteInFlightDisablesButton ==
    /\ \A i \in 1..Len(lsDeletes) :
          (PaginationShown /\ lsDeletes[i].id \in RowIds)
              => DeleteDisabled(lsDeletes[i].id)
    /\ \A i, j \in 1..Len(lsDeletes) :
          i # j => lsDeletes[i].id # lsDeletes[j].id

\* C19: after a delete settled, the page is 1 and the first page was
\* invalidated: when the first page is on screen, fetched and idle, it lists
\* no customer whose delete succeeded.
DeletedCustomerNotListed ==
    ( /\ lsPage = 1
      /\ CurrentQuery.status = "success"
      /\ CurrentQuery.fetchStatus = "idle" )
        => RowIds \cap lsDeleted = {}

(***************************************************************************)
(* What the pages show, and the claims about mutations and their errors.   *)
(***************************************************************************)
\* error.type of the value the listing query failed with
ErrorType(error) == IF "type" \in DOMAIN error THEN error.type ELSE "undefined"

\* error.message as the text React renders
ErrorMessage(error) ==
    IF "message" \in DOMAIN error /\ error.message.t = "string"
        THEN error.message.s ELSE ""

\* the texts of the Listing page: the error kind, the loading line, or the
\* heading over the table; the delete mutation's error is rendered nowhere
ListingScreen ==
    IF CurrentQuery.status = "error" THEN {"Error: " \o ErrorType(CurrentQuery.error)}
    ELSE IF CurrentQuery.status = "pending" THEN {"Loading..."}
    ELSE {"List of Customers"}

\* the texts of the ManageCustomer page: the query's error message, the
\* loading line, or the form; the update mutation's error is rendered nowhere
ManageScreen ==
    IF mcQuery.status = "error" THEN {ErrorMessage(mcQuery.error)}
    ELSE IF mcQuery.status = "pending" THEN {"Loading..."}
    ELSE {Field(Field(mcQuery.data, "data"), "name").s \o "'s Details"}
         \cup {mcAlerts[i] : i \in 1..Len(mcAlerts)}

\* the texts of the RegisterCustomer page: the heading and the alert of a
\* refused submission; the create mutation's error is rendered nowhere
RegisterScreen ==
    {"Register Customer"} \cup {rgAlerts[i] : i \in 1..Len(rgAlerts)}

\* the screen shows the kind or the message of error
ShowsError(screen, error) ==
    \E text \in screen :
        \/ text = "Error: " \o ErrorType(error)
        \/ text = ErrorMessage(error)

\* the operation that ended with state failed with a NetError
FailedClassified(state) == state.status = "error" /\ state.error.t = "NetError"

\* C13: whenever a network operation (listing fetch, detail fetch, create,
\* update, delete) has failed with a NetError, the page that ran it shows the
\* error: its kind or its message is on the screen.
ClassifiedErrorsAreShown ==
    /\ FailedClassified(CurrentQuery) => ShowsError(ListingScreen, CurrentQuery.error)
    /\ FailedClassified(lsMutation) => ShowsError(ListingScreen, lsMutation.error)
    /\ FailedClassified(mcQuery) => ShowsError(ManageScreen, mcQuery.error)
    /\ FailedClassified(mcMutation) => ShowsError(ManageScreen, mcMutation.error)
    /\ FailedClassified(rgMutation) => ShowsError(RegisterScreen, rgMutation.error)

\* C12: a step in which a mutation succeeds patches the record on screen or
\* invalidates the cached listing: an update leaves its response in the
\* ["customer", id] query, a delete leaves the first listing page invalidated
\* or refetching, and a create changes at least one of the cached listing
\* pages.
SuccessfulMutationTouchesCache ==
    [][ /\ (mcMutation.status = "pending" /\ mcMutation'.status = "success")
            => mcQuery'.data = mcMutation'.data
        /\ (lsDeleted' # lsDeleted)
            => \/ qcCache'[QueryKey(1, limit)].isInvalidated
               \/ qcCache'[QueryKey(1, limit)].fetchStatus = "fetching"
        /\ (rgMutation.status = "pending" /\ rgMutation'.status = "success"
                /\ Cached # {})
            => \E key \in Cached : qcCache'[key] # qcCache[key] ]_vars

====
